---- MODULE Spec2Model ----
(***************************************************************************)
(* Model of the FSADA statistics scripts (fsada_stats_openai.py and        *)
(* fsada_stats_ai_studio.py): SQLiteAnalyzer, the error-message            *)
(* normalisation, main's aggregation loop and the two exporters.           *)
(*                                                                         *)
(* Text is a sequence of one-character strings.  A Python value is a       *)
(* tagged record: None, an int or a str.                                   *)
(***************************************************************************)
EXTENDS Integers, Sequences, FiniteSets, TLC

VARIABLES
    \* ---- main ----
    pc,                 \* position of main
    disk,               \* what os.path.isdir, os.listdir and os.walk report
    folder_path,        \* args.folder_path
    recursive,          \* answer of ask_recursive_mode
    folder_to_dbs,      \* ordered dict folder -> list of database files
    fi, di,             \* position of the two nested loops of main
    folder_totals,      \* counters of the folder being aggregated
    all_stats,          \* list of Stats Records
    folder_summary,     \* ordered dict folder -> totals
    exit_status,        \* "running", 0 or 1
    \* ---- SQLiteAnalyzer.get_stats on one database ----
    db_path,            \* self.db_path of the analyzer
    table,              \* rows of TBL_FSADA in that database
    qn,                 \* next query of get_stats: 0 idle, 1..6, 7 build, 8 returned
    qres,               \* results of the queries already run by this get_stats
    stats,              \* value returned by get_stats
    stderr,             \* diagnostics written to sys.stderr
    history,            \* ghost: per get_stats call, the database and query outcomes
    faults,             \* number of query failures the environment may still cause
    conn,               \* local conn of the _execute_query call under way
    open_conns,         \* ghost: databases of the connections open in the process
    \* ---- normalisation loop of get_stats, row by row ----
    raw,                \* rows of query 6 still to be normalised
    error_message_counts,
    normalized,         \* ghost: <<message, normalized_msg>> of the rows done
    \* ---- exporters ----
    files,              \* content of the document paths
    template0,          \* ghost: the template as it was before the export
    output_path,        \* output_path / args.excel_output
    file_system,        \* label typed by the user
    rows_data,          \* Export Rows built by the last export
    template_read,      \* ghost: the export has opened the template
    export_result,      \* "none", "ok" or the name of the exception raised
    csv_rows,           \* rows written to stats_fsada_export.csv
    console,            \* tables printed by format_stats_report
    arg_idx,            \* argument of a call of _col_idx_to_name (0: no call)
    col_name            \* the name that call returned

mainVars == <<pc, disk, folder_path, recursive, folder_to_dbs, fi, di,
              folder_totals, all_stats, folder_summary, exit_status>>
statsVars == <<db_path, table, qn, qres, stats, stderr, history, faults, conn,
               open_conns>>
normVars == <<raw, error_message_counts, normalized>>
exportVars == <<files, template0, output_path, file_system, rows_data,
                template_read, export_result, csv_rows, console, arg_idx,
                col_name>>
vars == <<mainVars, statsVars, normVars, exportVars>>

\* ------------------------------------------------------------------------
\* Python values
\* ------------------------------------------------------------------------
None == [t |-> "none"]
PyInt(n) == [t |-> "int", v |-> n]
PyStr(s) == [t |-> "str", v |-> s]

\* ------------------------------------------------------------------------
\* Bounds
\* ------------------------------------------------------------------------
MaxRawRows == 2
MaxDbFiles == 2
MaxFaults == 1
MaxExportStats == 2
MaxColIdx == 703

\* ------------------------------------------------------------------------
\* Text helpers
\* ------------------------------------------------------------------------
StartsWithAt(s, p, i) ==
    /\ i >= 1
    /\ i + Len(p) - 1 <= Len(s)
    /\ \A k \in 1..Len(p) : s[i + k - 1] = p[k]

\* ------------------------------------------------------------------------
\* Normalisation constants
\* ------------------------------------------------------------------------
PatternHead ==
    <<"T", "h", "e", " ", "s", "p", "e", "c", "i", "f", "i", "e", "d", " ", "f", "i",
      "l", "e", " ">>
PatternTail ==
    <<" ", "d", "o", "e", "s", " ", "n", "o", "t", " ", "e", "x", "i", "s", "t", "s",
      " ", "o", "r", " ", "i", "s", " ", "n", "o", "t", " ", "r", "e", "a", "d", "a",
      "b", "l", "e", ".", ":", " ", "I", "n", "v", "a", "l", "i", "d", " ", "f", "i",
      "l", "e">>
Placeholder ==
    <<"{", "{", "f", "i", "l", "e", "_", "f", "u", "l", "l", "_", "p", "a", "t", "h",
      "}", "}">>

NORMALIZED_ERROR_MESSAGE == PatternHead \o Placeholder \o PatternTail

\* re.match(ERROR_PATTERN, message): anchored at the start only; ".*" takes any
\* run of characters other than a newline; the rest of the message is free.
MatchErrorPattern(message) ==
    /\ StartsWithAt(message, PatternHead, 1)
    /\ \E j \in (Len(PatternHead) + 1)..(Len(message) + 1) :
            /\ StartsWithAt(message, PatternTail, j)
            /\ \A k \in (Len(PatternHead) + 1)..(j - 1) : message[k] # "\n"

\* A rule that marks a matching message instead of replacing it.
NormalizeByMarking(message) ==
    IF MatchErrorPattern(message) THEN message \o <<"!">> ELSE message

\* Lines 132-135 of get_stats.
Normalize(message) ==
    IF MatchErrorPattern(message) THEN NORMALIZED_ERROR_MESSAGE ELSE message

\* ------------------------------------------------------------------------
\* Python dict kept as the sequence of its items in insertion order
\* ------------------------------------------------------------------------
DictHas(d, k) == \E i \in 1..Len(d) : d[i].k = k
DictGet(d, k, default) ==
    IF DictHas(d, k) THEN d[CHOOSE i \in 1..Len(d) : d[i].k = k].v ELSE default
DictSet(d, k, val) ==
    IF DictHas(d, k)
    THEN [i \in 1..Len(d) |-> IF d[i].k = k THEN [k |-> k, v |-> val] ELSE d[i]]
    ELSE Append(d, [k |-> k, v |-> val])

\* Line 131: message = row[0] if row and row[0] is not None else ""
RowMessage(row) ==
    IF Len(row) > 0 /\ row[1] # None THEN row[1].v ELSE <<>>

\* Lines 137-139: one more occurrence of the normalised message.
CountMessage(counts, normalized_msg) ==
    DictSet(counts, normalized_msg, DictGet(counts, normalized_msg, 0) + 1)

RECURSIVE CountMessages(_, _)
\* Lines 129-139: the whole loop over the rows of query 6.
CountMessages(counts, rows) ==
    IF rows = <<>> THEN counts
    ELSE CountMessages(CountMessage(counts, Normalize(RowMessage(Head(rows)))),
                       Tail(rows))

\* ------------------------------------------------------------------------
\* Paths: a path is the sequence of its components
\* ------------------------------------------------------------------------
\* os.path.basename
Basename(path) == <<path[Len(path)]>>
\* os.path.dirname
Dirname(path) == SubSeq(path, 1, Len(path) - 1)
\* os.path.join(folder, name)
JoinPath(folder, name) == Append(folder, name)

\* ------------------------------------------------------------------------
\* The database: rows of TBL_FSADA, and the six queries of get_stats
\* ------------------------------------------------------------------------
NumQueries == 6

AllSpaces(text) == \A i \in 1..Len(text) : text[i] = " "
\* SQL: col IS NOT NULL AND TRIM(col) <> ''   (TRIM removes spaces only)
NotBlankSql(val) == val # None /\ ~AllSpaces(val.v)

\* SQL: is_done = 0 AND error_message IS NOT NULL AND TRIM(error_message) <> ''
PendingWithError(row) == row.is_done = 0 /\ NotBlankSql(row.error_message)

RECURSIVE SelectErrorMessages(_)
\* SELECT error_message FROM table WHERE <PendingWithError>
SelectErrorMessages(rows) ==
    IF rows = <<>> THEN <<>>
    ELSE (IF PendingWithError(Head(rows)) THEN << <<Head(rows).error_message>> >>
          ELSE <<>>) \o SelectErrorMessages(Tail(rows))

\* SELECT COUNT(*) over the rows whose index is in matching
CountStar(matching) == << <<PyInt(Cardinality(matching))>> >>

\* The rows the cursor holds after cursor.execute(query q) on the table.
QueryRows(q, rows) ==
    CASE q = 1 -> CountStar(DOMAIN rows)
      [] q = 2 -> CountStar({i \in DOMAIN rows : rows[i].is_done = 1})
      [] q = 3 -> CountStar({i \in DOMAIN rows :
                                NotBlankSql(rows[i].cmx_document_id)})
      [] q = 4 -> CountStar({i \in DOMAIN rows : rows[i].is_done = 0})
      [] q = 5 -> CountStar({i \in DOMAIN rows : PendingWithError(rows[i])})
      [] q = 6 -> SelectErrorMessages(rows)

\* Outcomes of connect/execute/fetch: success, an sqlite3.Error (the two
\* except clauses of _execute_query differ only in the wording of the
\* diagnostic), and any other exception.
SqliteErrors == {"sqlite3.Error"}
Outcomes == {"ok", "Exception"} \cup SqliteErrors

PyList(rows) == [t |-> "list", v |-> rows]

\* _execute_query: the value returned when it returns (outcome # "Exception").
ExecuteQueryResult(cursor_rows, fetch_one, outcome) ==
    IF outcome \in SqliteErrors THEN None
    ELSE IF fetch_one
         THEN (IF cursor_rows # <<>> THEN cursor_rows[1][1] ELSE PyInt(0))
         ELSE PyList(cursor_rows)

\* Mutant: a None from any query makes get_stats return None.
ReturnsNoneAfterAnyQuery(q, result) == result = None

\* Lines 79-80: only the total-count query is checked for None.
ReturnsNoneAfter(q, result) == q = 1 /\ result = None

\* "x or 0"
OrZero(x) == IF x = None \/ x = PyInt(0) THEN 0 ELSE x.v
\* "rows if rows else []"
OrEmptyList(x) == IF x = None \/ x = PyList(<<>>) THEN <<>> ELSE x.v

\* Lines 129-150: the Stats Record built from the six results.
StatsRecord(path, res) ==
    [db_name |-> Basename(path),
     db_path |-> path,
     total_rows |-> res[1].v,
     is_done_1_count |-> OrZero(res[2]),
     cmx_document_id_not_empty_count |-> OrZero(res[3]),
     is_done_0_count |-> OrZero(res[4]),
     is_done_0_with_error_count |-> OrZero(res[5]),
     error_message_breakdown |-> CountMessages(<<>>, OrEmptyList(res[6]))]

Diagnostic(kind, path) == [kind |-> kind, db |-> Basename(path)]

\* Ghost: what the environment did to the call in progress.  "count failed":
\* the total-count query met an sqlite3.Error; "raised": some query raised
\* another exception; zeroed: the later queries that met an sqlite3.Error.
NoteOutcome(h, q, outcome) ==
    IF outcome = "Exception" THEN [h EXCEPT ![Len(h)].fate = "raised"]
    ELSE IF outcome \in SqliteErrors
         THEN IF q = 1 THEN [h EXCEPT ![Len(h)].fate = "count failed"]
              ELSE [h EXCEPT ![Len(h)].zeroed = @ \cup {q}]
         ELSE h
NewCall(path) == [db |-> path, fate |-> "ok", zeroed |-> {}]

\* A finally clause that leaves the connection open.
LeaveOpen(open, c) == open

\* Lines 62-63: conn.close()
CloseConn(open, c) ==
    LET i == CHOOSE j \in 1..Len(open) : open[j] = c.db
    IN  SubSeq(open, 1, i - 1) \o SubSeq(open, i + 1, Len(open))

\* The end of a call of _execute_query whose connect, execute or fetch had
\* the given outcome, with what get_stats does with its result (lines 43-65
\* and 74-126, 152-156).
EndQuery(outcome) ==
    /\ outcome # "ok" => faults > 0
    /\ faults' = IF outcome = "ok" THEN faults ELSE faults - 1
    /\ history' = NoteOutcome(history, qn, outcome)
    /\ IF outcome = "Exception"
       THEN /\ stderr' = Append(stderr, Diagnostic("unexpected", db_path))
            /\ stats' = None
            /\ qn' = 8
            /\ UNCHANGED qres
       ELSE LET result ==
                  ExecuteQueryResult(QueryRows(qn, table), qn # 6, outcome)
            IN  /\ stderr' = IF outcome \in SqliteErrors
                             THEN Append(stderr, Diagnostic(outcome, db_path))
                             ELSE stderr
                /\ IF ReturnsNoneAfter(qn, result)
                   THEN /\ stats' = None
                        /\ qn' = 8
                        /\ UNCHANGED qres
                   ELSE /\ qres' = Append(qres, result)
                        /\ qn' = qn + 1
                        /\ UNCHANGED stats

\* Lines 37-41: a call of _execute_query starts; sqlite3.connect opens the
\* connection, or raises and leaves conn at None.
Connect ==
    /\ qn \in 1..NumQueries
    /\ conn = None
    /\ \E outcome \in Outcomes :
        IF outcome = "ok"
        THEN /\ conn' = [t |-> "conn", db |-> db_path]
             /\ open_conns' = Append(open_conns, db_path)
             /\ UNCHANGED <<qn, qres, stats, stderr, history, faults>>
        ELSE /\ EndQuery(outcome)
             /\ UNCHANGED <<conn, open_conns>>
    /\ UNCHANGED <<db_path, table>>
    /\ UNCHANGED <<mainVars, normVars, exportVars>>

\* Lines 42-65: execute and fetch on the open connection, the finally clause,
\* and the return to get_stats.
ExecuteQuery ==
    /\ qn \in 1..NumQueries
    /\ conn # None
    /\ \E outcome \in Outcomes : EndQuery(outcome)
    /\ open_conns' = CloseConn(open_conns, conn)
    /\ conn' = None
    /\ UNCHANGED <<db_path, table>>
    /\ UNCHANGED <<mainVars, normVars, exportVars>>

\* Lines 128-150: normalisation, aggregation and the returned record.
BuildStats ==
    /\ qn = NumQueries + 1
    /\ stats' = StatsRecord(db_path, qres)
    /\ qn' = 8
    /\ UNCHANGED <<db_path, table, qres, stderr, history, faults, conn, open_conns>>
    /\ UNCHANGED <<mainVars, normVars, exportVars>>

\* ------------------------------------------------------------------------
\* Sample messages and tables
\* ------------------------------------------------------------------------
MissingFile(path) == PatternHead \o path \o PatternTail
MsgMissingA == MissingFile(<<"/", "a", "/", "b", ".", "p", "d", "f">>)
MsgMissingB == MissingFile(<<"/", "c">>)
MsgTimeout == <<"t", "i", "m", "e", "o", "u", "t">>
MsgTab == <<"\t">>
MsgTwoLines == <<"a", "\r", "\n", "b">>
\* messages of 80 and of 81 characters that are not of the missing-file shape
Msg80 == <<"x", "y", "z">> \o MsgMissingA
Msg81 == <<"w", "x", "y", "z">> \o MsgMissingA

RowDone ==
    [is_done |-> 1, cmx_document_id |-> PyStr(<<"d", "1">>), error_message |-> None]
RowPending ==
    [is_done |-> 0, cmx_document_id |-> None, error_message |-> None]
RowSpaces ==
    [is_done |-> 0, cmx_document_id |-> PyStr(<<" ">>),
     error_message |-> PyStr(<<" ", " ">>)]
RowFailed(message) ==
    [is_done |-> 0, cmx_document_id |-> PyStr(<<>>), error_message |-> PyStr(message)]
RowOtherStatus ==
    [is_done |-> 2, cmx_document_id |-> None, error_message |-> PyStr(MsgTimeout)]

TableEmpty == <<>>
TableDone == <<RowDone, RowDone>>
TableMixed ==
    <<RowDone, RowFailed(MsgMissingA), RowPending, RowFailed(MsgTimeout),
      RowFailed(MsgMissingB)>>
TableOdd ==
    <<RowOtherStatus, RowFailed(MsgTab), RowSpaces, RowFailed(MsgTimeout),
      RowFailed(MsgTimeout)>>
\* 7 done, 2 pending without error, 3 pending with the missing-file error
TableScenario ==
    [i \in 1..12 |-> IF i <= 7 THEN RowDone
                     ELSE IF i <= 9 THEN RowPending ELSE RowFailed(MsgMissingA)]

\* three buckets with the same count
TableTies ==
    <<RowFailed(MsgTimeout), RowFailed(MsgMissingB), RowFailed(MsgTwoLines)>>

\* long messages, the longer one twice
TableLong == <<RowFailed(Msg80), RowFailed(Msg81), RowFailed(Msg81)>>

Tables ==
    {TableEmpty, TableDone, TableMixed, TableOdd, TableScenario, TableTies,
     TableLong}
\* the table each database file of the batch holds
TableOf(path) ==
    CASE Basename(path) = <<"a.db">> -> TableMixed
      [] Basename(path) = <<"b.sqlite">> -> TableDone
      [] Basename(path) = <<"c.db">> -> TableOdd
      [] OTHER -> TableTies

SampleDb == <<"/", "data", "a.db">>

\* ------------------------------------------------------------------------
\* Idle values of the variables a specification does not use
\* ------------------------------------------------------------------------
ZeroTotals ==
    [total_rows |-> 0, is_done_1_count |-> 0, is_done_0_count |-> 0,
     cmx_document_id_not_empty_count |-> 0, is_done_0_with_error_count |-> 0]

IdleMain ==
    /\ pc = "idle"
    /\ disk = [is_dir |-> FALSE, root |-> <<>>, sub |-> <<>>]
    /\ folder_path = <<>>
    /\ recursive = FALSE
    /\ folder_to_dbs = <<>>
    /\ fi = 0
    /\ di = 0
    /\ folder_totals = ZeroTotals
    /\ all_stats = <<>>
    /\ folder_summary = <<>>
    /\ exit_status = "running"

IdleStats ==
    /\ db_path = <<>>
    /\ table = <<>>
    /\ qn = 0
    /\ qres = <<>>
    /\ stats = None
    /\ stderr = <<>>
    /\ history = <<>>
    /\ conn = None
    /\ open_conns = <<>>

IdleNorm ==
    /\ raw = <<>>
    /\ error_message_counts = <<>>
    /\ normalized = <<>>

IdleExport ==
    /\ files = [p \in {"entete_stats.xlsx", "out.xlsx"} |->
                    [exists |-> FALSE, parts |-> <<>>]]
    /\ template0 = [exists |-> FALSE, parts |-> <<>>]
    /\ output_path = "none"
    /\ file_system = <<>>
    /\ rows_data = <<>>
    /\ template_read = FALSE
    /\ export_result = "none"
    /\ csv_rows = <<>>
    /\ console = [printed |-> FALSE, overview |-> <<>>, details |-> <<>>]
    /\ arg_idx = 0
    /\ col_name = <<>>

\* ------------------------------------------------------------------------
\* SpecStats: one get_stats call on one database, every query free to fail
\* ------------------------------------------------------------------------
InitStats ==
    /\ IdleMain
    /\ IdleNorm
    /\ IdleExport
    /\ db_path = SampleDb
    /\ table \in Tables
    /\ qn = 1
    /\ qres = <<>>
    /\ stats = None
    /\ stderr = <<>>
    /\ history = <<NewCall(SampleDb)>>
    /\ faults = NumQueries
    /\ conn = None
    /\ open_conns = <<>>

NextStats == Connect \/ ExecuteQuery \/ BuildStats

SpecStats == InitStats /\ [][NextStats]_vars

\* ------------------------------------------------------------------------
\* main: discovery of the database files
\* ------------------------------------------------------------------------
Cwd == <<"/", "home">>
\* os.path.abspath, for a path without "." and ".." components
Abspath(path) == IF path # <<>> /\ path[1] = "/" THEN path ELSE Cwd \o path

DbNames == <<"a.db", "b.sqlite", "c.db", "d.sqlite">>
\* f.endswith((".sqlite", ".db")), over the names this model uses
EndsWithDbSuffix(name) == \E i \in 1..Len(DbNames) : DbNames[i] = name

RECURSIVE ListDbs(_, _)
\* [os.path.join(root, f) for f in files if f.endswith((".sqlite", ".db"))]
ListDbs(root, names) ==
    IF names = <<>> THEN <<>>
    ELSE (IF EndsWithDbSuffix(Head(names)) THEN <<JoinPath(root, Head(names))>>
          ELSE <<>>) \o ListDbs(root, Tail(names))

\* os.walk(folder_path): the folder itself, then its sub-folder.
Walk(d, root) ==
    <<[root |-> root, files |-> d.root],
      [root |-> JoinPath(root, "sub"), files |-> d.sub]>>

RECURSIVE CollectFolders(_)
\* Lines 436-443: only folders holding a database get a key.
CollectFolders(walk) ==
    IF walk = <<>> THEN <<>>
    ELSE LET dbs == ListDbs(Head(walk).root, Head(walk).files)
         IN  (IF dbs # <<>> THEN <<[k |-> Head(walk).root, v |-> dbs]>> ELSE <<>>)
             \o CollectFolders(Tail(walk))

\* Lines 433-451.
DiscoverFolders(d, root, rec) ==
    IF rec THEN CollectFolders(Walk(d, root))
    ELSE LET dbs == ListDbs(root, d.root \o <<"sub">>)
         IN  IF dbs # <<>> THEN <<[k |-> Abspath(root), v |-> dbs]>> ELSE <<>>

\* Mutant: the pending count is fed from the completed count.
AddTotalsMixedUp(totals, s) ==
    [total_rows |-> totals.total_rows + s.total_rows,
     is_done_1_count |-> totals.is_done_1_count + s.is_done_1_count,
     is_done_0_count |-> totals.is_done_0_count + s.is_done_1_count,
     cmx_document_id_not_empty_count |->
        totals.cmx_document_id_not_empty_count + s.cmx_document_id_not_empty_count,
     is_done_0_with_error_count |->
        totals.is_done_0_with_error_count + s.is_done_0_with_error_count]

\* Lines 479-487.
AddTotals(totals, s) ==
    [total_rows |-> totals.total_rows + s.total_rows,
     is_done_1_count |-> totals.is_done_1_count + s.is_done_1_count,
     is_done_0_count |-> totals.is_done_0_count + s.is_done_0_count,
     cmx_document_id_not_empty_count |->
        totals.cmx_document_id_not_empty_count + s.cmx_document_id_not_empty_count,
     is_done_0_with_error_count |->
        totals.is_done_0_with_error_count + s.is_done_0_with_error_count]

\* Mutant: a database without statistics ends the folder's loop ("break").
BreakLoop(i, n) == n + 1

\* Lines 475-476: "continue" moves on to the next of the n database files.
ContinueLoop(i, n) == i + 1

\* "if not stats: continue": None and the empty dict are falsy.
Falsy(s) == s = None

\* A check that accepts every path.
IsDirAlways(d) == TRUE

\* os.path.isdir(args.folder_path)
IsDir(d) == d.is_dir

\* Lines 424-428.
CheckFolder ==
    /\ pc = "start"
    /\ IF IsDir(disk)
       THEN /\ pc' = "ask"
            /\ UNCHANGED <<exit_status, stderr>>
       ELSE /\ pc' = "exited"
            /\ exit_status' = 1
            /\ stderr' = Append(stderr, [kind |-> "not a directory", db |-> folder_path])
    /\ UNCHANGED <<disk, folder_path, recursive, folder_to_dbs, fi, di,
                   folder_totals, all_stats, folder_summary>>
    /\ UNCHANGED <<db_path, table, qn, qres, stats, history, faults, conn,
                   open_conns>>
    /\ UNCHANGED <<normVars, exportVars>>

\* Line 430.
AskRecursive ==
    /\ pc = "ask"
    /\ recursive' \in BOOLEAN
    /\ pc' = "discover"
    /\ UNCHANGED <<disk, folder_path, folder_to_dbs, fi, di, folder_totals,
                   all_stats, folder_summary, exit_status>>
    /\ UNCHANGED <<statsVars, normVars, exportVars>>

\* Lines 433-460.
Discover ==
    /\ pc = "discover"
    /\ folder_to_dbs' = DiscoverFolders(disk, folder_path, recursive)
    /\ IF folder_to_dbs' = <<>>
       THEN /\ pc' = "exited"
            /\ exit_status' = 0
            /\ UNCHANGED fi
       ELSE /\ pc' = "folder"
            /\ fi' = 1
            /\ UNCHANGED exit_status
    /\ UNCHANGED <<disk, folder_path, recursive, di, folder_totals, all_stats,
                   folder_summary>>
    /\ UNCHANGED <<statsVars, normVars, exportVars>>

\* Lines 462-470: next folder of folder_to_dbs, or the end of the loop.
BeginFolder ==
    /\ pc = "folder"
    /\ IF fi <= Len(folder_to_dbs)
       THEN /\ folder_totals' = ZeroTotals
            /\ di' = 1
            /\ pc' = "db"
       ELSE /\ pc' = "report"
            /\ UNCHANGED <<folder_totals, di>>
    /\ UNCHANGED <<disk, folder_path, recursive, folder_to_dbs, fi, all_stats,
                   folder_summary, exit_status>>
    /\ UNCHANGED <<statsVars, normVars, exportVars>>

\* Lines 472-474 and 67-72: analyzer = SQLiteAnalyzer(db_file); get_stats starts.
StartGetStats ==
    /\ pc = "db"
    /\ di <= Len(folder_to_dbs[fi].v)
    /\ db_path' = folder_to_dbs[fi].v[di]
    /\ table' = TableOf(db_path')
    /\ qn' = 1
    /\ qres' = <<>>
    /\ stats' = None
    /\ history' = Append(history, NewCall(db_path'))
    /\ pc' = "get_stats"
    /\ UNCHANGED <<disk, folder_path, recursive, folder_to_dbs, fi, di,
                   folder_totals, all_stats, folder_summary, exit_status>>
    /\ UNCHANGED <<stderr, faults, conn, open_conns>>
    /\ UNCHANGED <<normVars, exportVars>>

\* Lines 475-487: get_stats has returned.
Aggregate ==
    /\ pc = "get_stats"
    /\ qn = 8
    /\ IF Falsy(stats)
       THEN /\ di' = ContinueLoop(di, Len(folder_to_dbs[fi].v))
            /\ UNCHANGED <<all_stats, folder_totals>>
       ELSE /\ all_stats' = Append(all_stats, stats)
            /\ folder_totals' = AddTotals(folder_totals, stats)
            /\ di' = di + 1
    /\ qn' = 0
    /\ pc' = "db"
    /\ UNCHANGED <<disk, folder_path, recursive, folder_to_dbs, fi,
                   folder_summary, exit_status>>
    /\ UNCHANGED <<db_path, table, qres, stats, stderr, history, faults, conn,
                   open_conns>>
    /\ UNCHANGED <<normVars, exportVars>>

\* Line 489: folder_summary[folder] = folder_totals.
EndFolder ==
    /\ pc = "db"
    /\ di > Len(folder_to_dbs[fi].v)
    /\ folder_summary' = DictSet(folder_summary, folder_to_dbs[fi].k, folder_totals)
    /\ fi' = fi + 1
    /\ pc' = "folder"
    /\ UNCHANGED <<disk, folder_path, recursive, folder_to_dbs, di, folder_totals,
                   all_stats, exit_status>>
    /\ UNCHANGED <<statsVars, normVars, exportVars>>

\* ------------------------------------------------------------------------
\* Export Rows
\* ------------------------------------------------------------------------
RECURSIVE InsertBeforeEqual(_, _)
\* A sort that is not stable: an item goes before the items of equal count.
InsertBeforeEqual(sorted, item) ==
    IF sorted = <<>> THEN <<item>>
    ELSE IF Head(sorted).v > item.v
         THEN <<Head(sorted)>> \o InsertBeforeEqual(Tail(sorted), item)
         ELSE <<item>> \o sorted

RECURSIVE InsertByCount(_, _)
\* Place item after every item whose count is not smaller: equal counts keep
\* their order, as sorted(..., key=count, reverse=True) does.
InsertByCount(sorted, item) ==
    IF sorted = <<>> THEN <<item>>
    ELSE IF Head(sorted).v >= item.v
         THEN <<Head(sorted)>> \o InsertByCount(Tail(sorted), item)
         ELSE <<item>> \o sorted

RECURSIVE SortedByCount(_)
\* sorted(breakdown.items(), key=lambda it: it[1], reverse=True)
SortedByCount(items) ==
    IF items = <<>> THEN <<>>
    ELSE InsertByCount(SortedByCount(SubSeq(items, 1, Len(items) - 1)),
                       items[Len(items)])

\* stats.get("db_path") or stats.get("db_name") or ""
DbPathOrName(s) ==
    IF s.db_path # <<>> THEN s.db_path
    ELSE IF s.db_name # <<>> THEN s.db_name ELSE <<>>

\* A row builder that writes no row for a database without error buckets.
RowsOfStatsBucketsOnly(s, label) ==
    LET items == SortedByCount(s.error_message_breakdown)
    IN  [i \in 1..Len(items) |->
            <<PyStr(label), PyStr(DbPathOrName(s)), PyInt(s.total_rows),
              PyInt(s.is_done_1_count), PyInt(s.is_done_0_count),
              PyStr(items[i].k), PyInt(items[i].v)>>]

\* Lines 277-291: the rows of one Stats Record.
RowsOfStats(s, label) ==
    LET base == <<PyStr(label), PyStr(DbPathOrName(s)), PyInt(s.total_rows),
                  PyInt(s.is_done_1_count), PyInt(s.is_done_0_count)>>
        items == SortedByCount(s.error_message_breakdown)
    IN  IF s.error_message_breakdown # <<>>
        THEN [i \in 1..Len(items) |->
                base \o <<PyStr(items[i].k), PyInt(items[i].v)>>]
        ELSE <<base \o <<PyStr(<<>>), PyInt(0)>>>>

RECURSIVE BuildExcelRows(_, _)
\* _build_excel_rows
BuildExcelRows(stats_list, label) ==
    IF stats_list = <<>> THEN <<>>
    ELSE RowsOfStats(Head(stats_list), label)
         \o BuildExcelRows(Tail(stats_list), label)

RECURSIVE CleanMsg(_)
\* msg.replace("\n", " ").replace("\r", "")
CleanMsg(msg) ==
    IF msg = <<>> THEN <<>>
    ELSE (IF Head(msg) = "\n" THEN <<" ">>
          ELSE IF Head(msg) = "\r" THEN <<>> ELSE <<Head(msg)>>)
         \o CleanMsg(Tail(msg))

\* Lines 286-314 of the CSV variant: the rows of one Stats Record.
CsvRowsOfStats(s, label) ==
    LET base_info == <<PyStr(label), PyStr(s.db_path), PyInt(s.total_rows),
                       PyInt(s.is_done_1_count), PyInt(s.is_done_0_count)>>
        sorted_errors == SortedByCount(s.error_message_breakdown)
    IN  IF s.error_message_breakdown # <<>>
        THEN [i \in 1..Len(sorted_errors) |->
                base_info \o <<PyStr(CleanMsg(sorted_errors[i].k)),
                               PyInt(sorted_errors[i].v)>>]
        ELSE <<base_info \o <<PyStr(<<>>), PyInt(0)>>>>

RECURSIVE BuildCsvRows(_, _)
\* The row loop of export_to_excel_csv ("if not stat: continue").
BuildCsvRows(stats_list, label) ==
    IF stats_list = <<>> THEN <<>>
    ELSE (IF Falsy(Head(stats_list)) THEN <<>>
          ELSE CsvRowsOfStats(Head(stats_list), label))
         \o BuildCsvRows(Tail(stats_list), label)

\* The header row (accents dropped).
CsvHeaders ==
    <<"File systeme", "Database", "Total", "Total migre", "Total erreur",
      "Message d'erreur", "Total (par erreur)">>

\* export_to_excel_csv: the content of stats_fsada_export.csv afterwards.
ExportToExcelCsv(old, stats_list, label, writable) ==
    IF writable
    THEN [content |-> <<CsvHeaders>> \o BuildCsvRows(stats_list, label),
          result |-> "csv ok"]
    ELSE [content |-> old, result |-> "csv PermissionError"]

\* ------------------------------------------------------------------------
\* Numbers as text
\* ------------------------------------------------------------------------
Digits == <<"0", "1", "2", "3", "4", "5", "6", "7", "8", "9">>
Letters ==
    <<"A", "B", "C", "D", "E", "F", "G", "H", "I", "J", "K", "L", "M", "N", "O",
      "P", "Q", "R", "S", "T", "U", "V", "W", "X", "Y", "Z">>

RECURSIVE StrOfNat(_)
StrOfNat(n) ==
    IF n < 10 THEN <<Digits[n + 1]>>
    ELSE StrOfNat(n \div 10) \o <<Digits[(n % 10) + 1]>>
\* str(n)
StrOfInt(n) == IF n < 0 THEN <<"-">> \o StrOfNat(-n) ELSE StrOfNat(n)

DigitValue(c) == (CHOOSE i \in 1..10 : Digits[i] = c) - 1
IsDigit(c) == \E i \in 1..10 : Digits[i] = c
RECURSIVE NatOfStr(_)
NatOfStr(text) ==
    IF text = <<>> THEN 0
    ELSE 10 * NatOfStr(SubSeq(text, 1, Len(text) - 1)) + DigitValue(text[Len(text)])

\* int(r.get("r")): TypeError on None, ValueError on text that is no number.
ParseInt(attr) ==
    IF attr = None THEN [ok |-> FALSE, v |-> 0]
    ELSE IF attr.v # <<>> /\ \A i \in 1..Len(attr.v) : IsDigit(attr.v[i])
         THEN [ok |-> TRUE, v |-> NatOfStr(attr.v)]
         ELSE [ok |-> FALSE, v |-> 0]

RECURSIVE ColIdxLoopPlain(_, _)
\* Plain base 26, the digit 0 written A.
ColIdxLoopPlain(idx, name) ==
    IF idx > 0
    THEN ColIdxLoopPlain(idx \div 26, <<Letters[(idx % 26) + 1]>> \o name)
    ELSE name

RECURSIVE ColIdxLoop(_, _)
ColIdxLoop(idx, name) ==
    IF idx > 0
    THEN ColIdxLoop((idx - 1) \div 26, <<Letters[((idx - 1) % 26) + 1]>> \o name)
    ELSE name
\* _col_idx_to_name
ColIdxToName(idx) == ColIdxLoop(idx, <<>>)

\* ------------------------------------------------------------------------
\* The worksheet markup
\* ------------------------------------------------------------------------
\* Lines 357-376: the children and the type attribute of a new cell.
CellContent(value) ==
    IF value = None \/ value = PyStr(<<>>)
    THEN [t |-> "absent", children |-> <<>>]
    ELSE IF value.t = "int"
         THEN [t |-> "absent",
               children |-> <<[tag |-> "v", text |-> StrOfInt(value.v)]>>]
         ELSE [t |-> "inlineStr",
               children |-> <<[tag |-> "is",
                               children |-> <<[tag |-> "t", text |-> value.v]>>]>>]

\* Lines 347-378.
CellElement(col_idx, row_index, value) ==
    [tag |-> "c",
     r |-> ColIdxToName(col_idx) \o StrOfInt(row_index),
     s |-> "2",
     t |-> CellContent(value).t,
     children |-> CellContent(value).children]

\* Lines 335-378.
RowElement(row_index, row_values) ==
    [tag |-> "row",
     r |-> PyStr(StrOfInt(row_index)),
     spans |-> "1:7",
     dyDescent |-> "0.25",
     cells |-> [c \in 1..Len(row_values) |->
                    CellElement(c, row_index, row_values[c])]]

RECURSIVE MaxRowLoop(_, _)
\* Lines 322-329.
MaxRowLoop(existing_rows, max_r) ==
    IF existing_rows = <<>> THEN max_r
    ELSE LET rr == ParseInt(Head(existing_rows).r)
         IN  MaxRowLoop(Tail(existing_rows),
                        IF rr.ok /\ rr.v > max_r THEN rr.v ELSE max_r)

\* A start index taken from the number of rows instead of their indices.
StartRowFromCount(existing_rows) == Len(existing_rows) + 1

\* Line 331: start_row = max_r + 1 if max_r else 1
StartRow(existing_rows) ==
    LET max_r == MaxRowLoop(existing_rows, 0)
    IN  IF max_r # 0 THEN max_r + 1 ELSE 1

\* Lines 334-380: sheetData after the new rows are appended.
AppendRows(existing_rows, rows) ==
    existing_rows \o
    [i \in 1..Len(rows) |-> RowElement(StartRow(existing_rows) + (i - 1), rows[i])]

\* ------------------------------------------------------------------------
\* The template and output archives
\* ------------------------------------------------------------------------
SheetPart == "xl/worksheets/sheet1.xml"
TemplatePath == "entete_stats.xlsx"
OtherPath == "out.xlsx"

Absent == [exists |-> FALSE, parts |-> <<>>]
Archive(parts) == [exists |-> TRUE, parts |-> parts]

HasPart(parts, name) == \E i \in 1..Len(parts) : parts[i].filename = name
\* zin.read(name): the data of the entry the archive's name table holds
ReadPart(parts, name) ==
    parts[CHOOSE i \in 1..Len(parts) :
            /\ parts[i].filename = name
            /\ \A j \in (i + 1)..Len(parts) : parts[j].filename # name].data

\* ET.fromstring: the element tree of a worksheet part
ParseSheet(data) == [sheetData |-> data.sheetData]
\* ET.tostring(root, encoding="utf-8", xml_declaration=True)
SerializeSheet(tree) ==
    [kind |-> "xml", writer |-> "ElementTree", sheetData |-> tree.sheetData]

\* A writer that keeps the worksheet part only.
CopySheetOnly(parts, new_sheet_xml) ==
    <<[filename |-> SheetPart, data |-> new_sheet_xml]>>

\* Lines 385-389: the parts written to the output, in infolist order.
CopyParts(parts, new_sheet_xml) ==
    [i \in 1..Len(parts) |->
        [filename |-> parts[i].filename,
         data |-> IF parts[i].filename = SheetPart THEN new_sheet_xml
                  ELSE ReadPart(parts, parts[i].filename)]]

\* Lines 384-389 when output_path is the template itself: opening it for
\* writing truncates the archive being read; the reads that follow are served
\* from what the reader still buffers (the first "served" parts) and the next
\* one raises BadZipFile, which closes the output with the parts written so far.
CopyOntoTemplate(fs, path, parts, new_sheet_xml, served) ==
    [files |-> [fs EXCEPT ![path] =
                    Archive(SubSeq(CopyParts(parts, new_sheet_xml), 1, served))],
     result |-> IF served = Len(parts) THEN "ok" ELSE "BadZipFile"]

\* Lines 308-389, once the rows are known to be non-empty.
WriteWorkbook(fs, template_path, out_path, rows, writable, served) ==
    LET tpl == fs[template_path]
        same == [files |-> fs, result |-> "ok"]
    IN  IF ~tpl.exists THEN [same EXCEPT !.result = "FileNotFoundError"]
        ELSE IF ~HasPart(tpl.parts, SheetPart)
             THEN [same EXCEPT !.result = "KeyError"]
        ELSE LET root == ParseSheet(ReadPart(tpl.parts, SheetPart))
             IN  IF ~root.sheetData.present
                 THEN [same EXCEPT !.result = "RuntimeError"]
                 ELSE LET new_sheet_xml ==
                            SerializeSheet(
                                [sheetData |->
                                    [present |-> TRUE,
                                     rows |-> AppendRows(root.sheetData.rows,
                                                         rows)]])
                      IN  IF ~writable
                          THEN [same EXCEPT !.result = "PermissionError"]
                          ELSE IF out_path = template_path
                               THEN CopyOntoTemplate(fs, out_path, tpl.parts,
                                                     new_sheet_xml, served)
                               ELSE [files |-> [fs EXCEPT ![out_path] =
                                        Archive(CopyParts(tpl.parts, new_sheet_xml))],
                                     result |-> "ok"]

\* An exporter without the precondition.
NeverRaisesNoData(rows) == FALSE

\* Lines 304-306: no Export Row is an error raised before anything is opened.
RaisesNoData(rows) == rows = <<>>

\* export_stats_to_excel
ExportStatsToExcel(fs, template_path, out_path, stats_list, label, writable, served) ==
    LET rows == BuildExcelRows(stats_list, label)
    IN  IF RaisesNoData(rows)
        THEN [files |-> fs, result |-> "ValueError", rows_data |-> rows,
              template_read |-> FALSE]
        ELSE LET w == WriteWorkbook(fs, template_path, out_path, rows, writable,
                                    served)
             IN  [files |-> w.files, result |-> w.result, rows_data |-> rows,
                  template_read |-> TRUE]

\* ------------------------------------------------------------------------
\* Sample templates
\* ------------------------------------------------------------------------
Bytes(id) == [kind |-> "bytes", id |-> id]
HeaderCell(ref) ==
    [tag |-> "c", r |-> ref, s |-> "1", t |-> "s",
     children |-> <<[tag |-> "v", text |-> <<"0">>]>>]
HeaderRow(r, ref) ==
    [tag |-> "row", r |-> r, spans |-> "1:7", dyDescent |-> "0.25",
     cells |-> <<HeaderCell(ref)>>]
Sheet(rows) ==
    [kind |-> "xml", writer |-> "Excel",
     sheetData |-> [present |-> TRUE, rows |-> rows]]

Workbook(sheet) ==
    <<[filename |-> "[Content_Types].xml", data |-> Bytes("types")],
      [filename |-> "xl/styles.xml", data |-> Bytes("styles")],
      [filename |-> SheetPart, data |-> sheet],
      [filename |-> "xl/sharedStrings.xml", data |-> Bytes("strings")]>>

\* the two header rows of entete_stats.xlsx
SheetHeaders ==
    Sheet(<<HeaderRow(PyStr(<<"1">>), <<"A", "1">>),
            HeaderRow(PyStr(<<"2">>), <<"A", "2">>)>>)
SheetNoRows == Sheet(<<>>)
\* rows out of order, one without an index and one whose index is no number
SheetOddRows ==
    Sheet(<<HeaderRow(PyStr(<<"1", "0">>), <<"A", "1", "0">>),
            HeaderRow(None, <<"A", "3">>),
            HeaderRow(PyStr(<<"x">>), <<"A", "4">>),
            HeaderRow(PyStr(<<"9">>), <<"A", "9">>)>>)
\* a worksheet without a sheetData element
SheetNoData ==
    [kind |-> "xml", writer |-> "Excel",
     sheetData |-> [present |-> FALSE, rows |-> <<>>]]

Templates ==
    {Archive(Workbook(SheetHeaders)), Archive(Workbook(SheetNoRows)),
     Archive(Workbook(SheetOddRows)), Archive(Workbook(SheetNoData)),
     Archive(<<[filename |-> "xl/styles.xml", data |-> Bytes("styles")]>>),
     Absent}

OldOutput == Archive(<<[filename |-> "old.xml", data |-> Bytes("old")]>>)

\* ------------------------------------------------------------------------
\* format_stats_report
\* ------------------------------------------------------------------------
\* "[FICHIER MANQUANT NORMALISE]" (accent dropped)
NormalizedLabel ==
    <<"[", "F", "I", "C", "H", "I", "E", "R", " ", "M", "A", "N", "Q", "U", "A",
      "N", "T", " ", "N", "O", "R", "M", "A", "L", "I", "S", "E", "]">>

\* Line 233: (msg[:77] + "...") if len(msg) > 80 else msg
Truncated(msg) ==
    IF Len(msg) > 80 THEN SubSeq(msg, 1, 77) \o <<".", ".", ".">> ELSE msg

\* Lines 234-238.
Display(msg) ==
    IF msg = NORMALIZED_ERROR_MESSAGE THEN NormalizedLabel ELSE Truncated(msg)

\* Lines 228-239: the error detail rows of one Stats Record.
ErrRows(s) ==
    LET sorted_errors == SortedByCount(s.error_message_breakdown)
    IN  [i \in 1..Len(sorted_errors) |->
            <<Display(sorted_errors[i].k), sorted_errors[i].v>>]

\* Lines 203-216: the overview row of one Stats Record.
OverviewRow(s) ==
    <<s.db_name, s.total_rows, s.is_done_1_count, s.is_done_0_count,
      s.cmx_document_id_not_empty_count, s.is_done_0_with_error_count>>

RECURSIVE OverviewRows(_)
OverviewRows(stats_list) ==
    IF stats_list = <<>> THEN <<>>
    ELSE (IF Falsy(Head(stats_list)) THEN <<>>
          ELSE <<OverviewRow(Head(stats_list))>>)
         \o OverviewRows(Tail(stats_list))

RECURSIVE DetailTables(_)
\* Lines 221-245: one detail table per record with a non-empty breakdown.
DetailTables(stats_list) ==
    IF stats_list = <<>> THEN <<>>
    ELSE (IF Falsy(Head(stats_list))
             \/ Head(stats_list).error_message_breakdown = <<>>
          THEN <<>>
          ELSE <<[db_name |-> Head(stats_list).db_name,
                  err_rows |-> ErrRows(Head(stats_list))]>>)
         \o DetailTables(Tail(stats_list))

\* format_stats_report
FormatStatsReport(stats_list) ==
    [printed |-> TRUE,
     overview |-> OverviewRows(stats_list),
     details |-> DetailTables(stats_list)]

\* ------------------------------------------------------------------------
\* main: the report and the export (lines 491-553; 424-437 of the CSV variant)
\* ------------------------------------------------------------------------
Labels == {<<"N", "A", "S", " ", "2">>}

\* The state of the two document paths when the export looks at them.
MainFiles ==
    {[p \in {TemplatePath, OtherPath} |-> IF p = TemplatePath THEN t ELSE Absent] :
        t \in {Archive(Workbook(SheetHeaders)), Absent}}

\* The spreadsheet variant: export when -x was given and a label was typed.
\* args.excel_output, the label and the documents are drawn here, where main
\* first looks at them.
ReportExcel ==
    /\ pc = "report"
    /\ \E out \in {"none", OtherPath, TemplatePath}, label \in Labels \cup {<<>>},
          fs \in MainFiles, writable \in BOOLEAN,
          served \in {0, 1, Len(Workbook(SheetHeaders))} :
        /\ output_path' = out
        /\ template0' = fs[TemplatePath]
        /\ IF all_stats # <<>> /\ out # "none" /\ label # <<>>
           THEN IF ~fs[TemplatePath].exists
                THEN /\ stderr' = Append(stderr, [kind |-> "no template",
                                                  db |-> <<TemplatePath>>])
                     /\ file_system' = label
                     /\ files' = fs
                     /\ UNCHANGED <<rows_data, template_read, export_result>>
                ELSE LET e == ExportStatsToExcel(fs, TemplatePath, out, all_stats,
                                                 label, writable, served)
                     IN  /\ files' = e.files
                         /\ rows_data' = e.rows_data
                         /\ template_read' = e.template_read
                         /\ export_result' = e.result
                         /\ file_system' = label
                         /\ stderr' = IF e.result = "ok" THEN stderr
                                      ELSE Append(stderr, [kind |-> e.result,
                                                           db |-> <<out>>])
           ELSE /\ file_system' = IF all_stats # <<>> /\ out # "none"
                                  THEN label ELSE file_system
                /\ files' = fs
                /\ UNCHANGED <<rows_data, template_read, export_result, stderr>>
    /\ console' = IF all_stats # <<>> THEN FormatStatsReport(all_stats)
                   ELSE console
    /\ pc' = "exited"
    /\ exit_status' = 0
    /\ UNCHANGED <<disk, folder_path, recursive, folder_to_dbs, fi, di,
                   folder_totals, all_stats, folder_summary>>
    /\ UNCHANGED <<db_path, table, qn, qres, stats, history, faults, conn,
                   open_conns>>
    /\ UNCHANGED <<normVars, csv_rows, arg_idx, col_name>>

\* The CSV variant: export when the user answers yes.
ReportCsv ==
    /\ pc = "report"
    /\ \E wanted \in BOOLEAN, label \in Labels \cup {<<>>}, writable \in BOOLEAN :
        IF all_stats # <<>> /\ wanted
        THEN LET e == ExportToExcelCsv(csv_rows, all_stats, label, writable)
             IN  /\ csv_rows' = e.content
                 /\ export_result' = e.result
                 /\ file_system' = label
        ELSE UNCHANGED <<csv_rows, export_result, file_system>>
    /\ console' = IF all_stats # <<>> THEN FormatStatsReport(all_stats)
                   ELSE console
    /\ pc' = "exited"
    /\ exit_status' = 0
    /\ UNCHANGED <<disk, folder_path, recursive, folder_to_dbs, fi, di,
                   folder_totals, all_stats, folder_summary>>
    /\ UNCHANGED <<statsVars, normVars>>
    /\ UNCHANGED <<files, template0, output_path, rows_data, template_read,
                   arg_idx, col_name>>

\* ------------------------------------------------------------------------
\* Spec: a run of main
\* ------------------------------------------------------------------------
FolderPaths == {<<"/", "data">>, <<"data">>}

\* The root holds the first n_root names and a text file, its sub-folder the
\* next n_sub names.
DiskWith(n_root, n_sub) ==
    [is_dir |-> TRUE,
     root |-> SubSeq(DbNames, 1, n_root) \o <<"notes.txt">>,
     sub |-> SubSeq(DbNames, n_root + 1, n_root + n_sub)]

Disks ==
    {[is_dir |-> FALSE, root |-> <<>>, sub |-> <<>>]} \cup
    {DiskWith(n[1], n[2]) :
        n \in {m \in (0..MaxDbFiles) \X (0..MaxDbFiles) : m[1] + m[2] <= MaxDbFiles}}

Init ==
    /\ pc = "start"
    /\ disk \in Disks
    /\ folder_path \in FolderPaths
    /\ recursive = FALSE
    /\ folder_to_dbs = <<>>
    /\ fi = 0
    /\ di = 0
    /\ folder_totals = ZeroTotals
    /\ all_stats = <<>>
    /\ folder_summary = <<>>
    /\ exit_status = "running"
    /\ IdleStats /\ faults = MaxFaults
    /\ IdleNorm
    /\ IdleExport

Next ==
    \/ CheckFolder
    \/ AskRecursive
    \/ Discover
    \/ BeginFolder
    \/ StartGetStats
    \/ Connect
    \/ ExecuteQuery
    \/ BuildStats
    \/ Aggregate
    \/ EndFolder
    \/ ReportExcel
    \/ ReportCsv

Spec == Init /\ [][Next]_vars

\* ------------------------------------------------------------------------
\* SpecNorm: the normalisation loop of get_stats over raw error rows
\* ------------------------------------------------------------------------
SamplePaths == {<<>>, <<"/", "c">>, <<"a", "\n", "b">>}
SampleTrails == {<<>>, <<" ", "(", "2", ")">>, <<"\n", "x">>}

NormMessages ==
    {PatternHead \o path \o PatternTail \o trail :
        path \in SamplePaths, trail \in SampleTrails}
    \cup {MsgTimeout, MsgTab, NORMALIZED_ERROR_MESSAGE,
          <<"x">> \o MsgMissingB,
          <<"t">> \o Tail(MsgMissingB),
          SubSeq(MsgMissingB, 1, Len(MsgMissingB) - 1)}

RawRows == {<<PyStr(m)>> : m \in NormMessages} \cup {<<None>>}

RECURSIVE SeqsUpTo(_, _)
\* the sequences over S of length at most n
SeqsUpTo(S, n) ==
    IF n = 0 THEN {<<>>}
    ELSE LET shorter == SeqsUpTo(S, n - 1)
         IN  shorter \cup {Append(q, x) : q \in shorter, x \in S}

InitNorm ==
    /\ IdleMain
    /\ IdleStats /\ faults = 0
    /\ IdleExport
    /\ raw \in SeqsUpTo(RawRows, MaxRawRows)
    /\ error_message_counts = <<>>
    /\ normalized = <<>>

\* Lines 130-139: one iteration of the loop.
NormalizeRow ==
    /\ raw # <<>>
    /\ LET message == RowMessage(Head(raw))
           normalized_msg == Normalize(message)
       IN  /\ error_message_counts' =
                CountMessage(error_message_counts, normalized_msg)
           /\ normalized' = Append(normalized, <<message, normalized_msg>>)
    /\ raw' = Tail(raw)
    /\ UNCHANGED <<mainVars, statsVars, exportVars>>

NextNorm == NormalizeRow

SpecNorm == InitNorm /\ [][NextNorm]_vars

\* ------------------------------------------------------------------------
\* SpecExport: one call of format_stats_report or of an exporter on a list of
\* Stats Records
\* ------------------------------------------------------------------------
\* The record get_stats returns when every query succeeds.
StatsOfTable(path, rows) ==
    StatsRecord(path, [q \in 1..NumQueries |->
                          ExecuteQueryResult(QueryRows(q, rows), q # 6, "ok")])

ExportRecords ==
    {StatsOfTable(<<"/", "data", "a.db">>, TableMixed),
     StatsOfTable(<<"/", "data", "b.sqlite">>, TableDone),
     StatsOfTable(<<"/", "data", "c.db">>, TableOdd),
     StatsOfTable(<<"/", "data", "sub", "d.sqlite">>, TableTies),
     StatsOfTable(<<"/", "data", "sub", "a.db">>, TableScenario),
     StatsOfTable(<<"/", "data", "e.db">>, TableLong)}

InitExport ==
    /\ pc = "idle"
    /\ disk = [is_dir |-> FALSE, root |-> <<>>, sub |-> <<>>]
    /\ folder_path = <<>>
    /\ recursive = FALSE
    /\ folder_to_dbs = <<>>
    /\ fi = 0
    /\ di = 0
    /\ folder_totals = ZeroTotals
    /\ folder_summary = <<>>
    /\ exit_status = "running"
    /\ IdleStats /\ faults = 0
    /\ IdleNorm
    /\ all_stats \in SeqsUpTo(ExportRecords, MaxExportStats)
    /\ files \in {[p \in {TemplatePath, OtherPath} |->
                    IF p = TemplatePath THEN t ELSE o] :
                        t \in Templates, o \in {Absent, OldOutput}}
    /\ template0 = files[TemplatePath]
    /\ output_path \in {OtherPath, TemplatePath}
    /\ file_system \in Labels
    /\ rows_data = <<>>
    /\ template_read = FALSE
    /\ export_result = "none"
    /\ csv_rows = <<>>
    /\ console = [printed |-> FALSE, overview |-> <<>>, details |-> <<>>]
    /\ arg_idx = 0
    /\ col_name = <<>>

\* format_stats_report(all_stats)
FormatReport ==
    /\ export_result = "none"
    /\ ~console.printed
    /\ console' = FormatStatsReport(all_stats)
    /\ UNCHANGED <<mainVars, statsVars, normVars>>
    /\ UNCHANGED <<files, template0, output_path, file_system, rows_data,
                   template_read, export_result, csv_rows, arg_idx, col_name>>

\* export_stats_to_excel(TemplatePath, output_path, all_stats, file_system)
ExportExcel ==
    /\ export_result = "none"
    /\ ~console.printed
    /\ \E writable \in BOOLEAN, served \in 0..Len(files[TemplatePath].parts) :
        LET e == ExportStatsToExcel(files, TemplatePath, output_path, all_stats,
                                    file_system, writable, served)
        IN  /\ files' = e.files
            /\ rows_data' = e.rows_data
            /\ template_read' = e.template_read
            /\ export_result' = e.result
    /\ UNCHANGED <<mainVars, statsVars, normVars>>
    /\ UNCHANGED <<template0, output_path, file_system, csv_rows, console,
                   arg_idx, col_name>>

\* export_to_excel_csv(all_stats), the label being file_system
ExportCsv ==
    /\ export_result = "none"
    /\ ~console.printed
    /\ \E writable \in BOOLEAN :
        LET e == ExportToExcelCsv(csv_rows, all_stats, file_system, writable)
        IN  /\ csv_rows' = e.content
            /\ export_result' = e.result
    /\ UNCHANGED <<mainVars, statsVars, normVars>>
    /\ UNCHANGED <<files, template0, output_path, file_system, rows_data,
                   template_read, console, arg_idx, col_name>>

NextExport == FormatReport \/ ExportExcel \/ ExportCsv

SpecExport == InitExport /\ [][NextExport]_vars

\* ------------------------------------------------------------------------
\* SpecCol: one call of _col_idx_to_name, made directly or by
\* export_stats_to_excel for the cells of its new rows
\* ------------------------------------------------------------------------
InitCol ==
    /\ InitExport
    /\ Len(all_stats) <= 1
    /\ files = [p \in {TemplatePath, OtherPath} |->
                    IF p = TemplatePath THEN Archive(Workbook(SheetOddRows))
                    ELSE Absent]
    /\ output_path = OtherPath

\* _col_idx_to_name(idx)
ColIdxToNameCall ==
    /\ arg_idx = 0
    /\ export_result = "none"
    /\ \E idx \in 1..MaxColIdx :
        /\ arg_idx' = idx
        /\ col_name' = ColIdxToName(idx)
    /\ UNCHANGED <<mainVars, statsVars, normVars>>
    /\ UNCHANGED <<files, template0, output_path, file_system, rows_data,
                   template_read, export_result, csv_rows, console>>

NextCol == ColIdxToNameCall \/ (arg_idx = 0 /\ ExportExcel)

SpecCol == InitCol /\ [][NextCol]_vars

\* ========================================================================
\* Claims
\* ========================================================================
RECURSIVE SumCounts(_)
SumCounts(items) ==
    IF items = <<>> THEN 0 ELSE Head(items).v + SumCounts(Tail(items))

\* get_stats has returned a Stats Record
Returned == qn = 8 /\ stats # None

\* C1: for every Stats Record get_stats returns, the values of
\* error_message_breakdown sum to is_done_0_with_error_count, whichever of
\* the later queries succeed or fail.
C1_BreakdownSumsToErrorCount ==
    Returned =>
        SumCounts(stats.error_message_breakdown) = stats.is_done_0_with_error_count

\* ---- C2 ----
Diagnosed(db) ==
    \E j \in 1..Len(stderr) : stderr[j] = Diagnostic("sqlite3.Error", db)
InAllStats(db) == \E j \in 1..Len(all_stats) : all_stats[j].db_path = db
\* call i of get_stats has returned
CallOver(i) == i < Len(history) \/ qn \in {0, 8}
\* the call's return value is still to be aggregated by main
Pending(i) == i = Len(history) /\ qn = 8
\* no Stats Record of call i exists
Skipped(i) ==
    /\ Pending(i) => stats = None
    /\ ~InAllStats(history[i].db)
\* the Stats Record of call i
RecordOf(i) ==
    IF Pending(i) THEN stats
    ELSE all_stats[CHOOSE j \in 1..Len(all_stats) :
                        all_stats[j].db_path = history[i].db]
CounterOf(s, q) ==
    CASE q = 2 -> s.is_done_1_count
      [] q = 3 -> s.cmx_document_id_not_empty_count
      [] q = 4 -> s.is_done_0_count
      [] q = 5 -> s.is_done_0_with_error_count
      [] q = 6 -> Len(s.error_message_breakdown)

RECURSIVE SumField(_, _)
\* one counter summed over a list of Stats Records
SumField(records, c) ==
    IF records = <<>> THEN 0
    ELSE (CASE c = 1 -> Head(records).total_rows
            [] c = 2 -> Head(records).is_done_1_count
            [] c = 3 -> Head(records).is_done_0_count
            [] c = 4 -> Head(records).cmx_document_id_not_empty_count
            [] c = 5 -> Head(records).is_done_0_with_error_count)
         + SumField(Tail(records), c)

\* the five counters summed over a list of Stats Records
TotalsOf(records) ==
    [total_rows |-> SumField(records, 1),
     is_done_1_count |-> SumField(records, 2),
     is_done_0_count |-> SumField(records, 3),
     cmx_document_id_not_empty_count |-> SumField(records, 4),
     is_done_0_with_error_count |-> SumField(records, 5)]

\* the five counters summed over the records whose database is in dbs
SumTotals(records, dbs) ==
    LET Listed(r) == \E k \in 1..Len(dbs) : dbs[k] = r.db_path
    IN  TotalsOf(SelectSeq(records, Listed))

\* folder_totals holds exactly what the records of the current folder add up to
TotalsMatchRecords ==
    pc \in {"db", "get_stats"} =>
        folder_totals = SumTotals(all_stats, folder_to_dbs[fi].v)

FairSpec == Spec /\ WF_vars(Next)

RECURSIVE ScanOrder(_)
\* the discovered database files, folder by folder
ScanOrder(folders) ==
    IF folders = <<>> THEN <<>> ELSE Head(folders).v \o ScanOrder(Tail(folders))

Succeeded(call) == call.fate = "ok"

BatchComplete ==
    (pc = "exited" /\ folder_to_dbs # <<>>) =>
        /\ [i \in 1..Len(history) |-> history[i].db] = ScanOrder(folder_to_dbs)
        /\ [j \in 1..Len(all_stats) |-> all_stats[j].db_path]
             = [j \in 1..Len(SelectSeq(history, Succeeded)) |->
                    SelectSeq(history, Succeeded)[j].db]

\* C3: whichever databases fail on their total-count query or raise during
\* their analysis, main ends, having called get_stats exactly once on every
\* discovered file, with all_stats holding exactly the records of the
\* databases whose analysis succeeded, in scan order.
C3_FailuresDoNotStopTheBatch == <>(pc = "exited") /\ []BatchComplete

\* a run is over in which a database failed and a later one was aggregated
C3_Witness ==
    /\ pc = "exited"
    /\ \E i \in 1..Len(history) : \E j \in (i + 1)..Len(history) :
          /\ history[i].fate # "ok"
          /\ history[j].fate = "ok"
          /\ InAllStats(history[j].db)

\* ---- C4 ----
IsProperPrefix(a, b) == Len(a) < Len(b) /\ SubSeq(b, 1, Len(a)) = a
\* the database file lies in the folder or in one of its sub-folders
Under(db, folder) == IsProperPrefix(Abspath(folder), Abspath(db))
\* the database file lies in the folder itself
DirectlyIn(db, folder) == Abspath(Dirname(db)) = Abspath(folder)

RecordsUnder(folder) ==
    LET Test(r) == Under(r.db_path, folder) IN SelectSeq(all_stats, Test)
RecordsDirectlyIn(folder) ==
    LET Test(r) == DirectlyIn(r.db_path, folder) IN SelectSeq(all_stats, Test)

AfterLoop == pc = "report" \/ (pc = "exited" /\ folder_to_dbs # <<>>)

\* C4 as stated: after the aggregation loop every folder's totals are the
\* sums of the five counters over the records whose database path is under
\* that folder.
C4_TotalsOfRecordsUnderFolder ==
    AfterLoop =>
        \A f \in 1..Len(folder_summary) :
            folder_summary[f].v = TotalsOf(RecordsUnder(folder_summary[f].k))

\* C4 amended: ... over the records whose database file lies directly in
\* that folder (the records of sub-folders are not part of it).
C4_TotalsOfRecordsInFolder ==
    AfterLoop =>
        \A f \in 1..Len(folder_summary) :
            folder_summary[f].v = TotalsOf(RecordsDirectlyIn(folder_summary[f].k))

\* a recursive scan has aggregated a folder and its sub-folder
C4_Witness ==
    /\ AfterLoop
    /\ recursive
    /\ Len(folder_summary) = 2
    /\ RecordsDirectlyIn(folder_summary[1].k) # <<>>
    /\ RecordsDirectlyIn(folder_summary[2].k) # <<>>

\* ---- C5 ----
\* "The specified file <path> does not exists or is not readable.: Invalid
\* file" for some path
IsMissingFileShape(m) ==
    /\ Len(m) >= Len(PatternHead) + Len(PatternTail)
    /\ StartsWithAt(m, PatternHead, 1)
    /\ StartsWithAt(m, PatternTail, Len(m) - Len(PatternTail) + 1)

\* C5: the normalisation maps every message of exactly the missing-file shape
\* to NORMALIZED_ERROR_MESSAGE and every other message to itself, so two
\* different messages share a bucket only if both are of that shape.
C5_ExactShapeOnly ==
    /\ \A i \in 1..Len(normalized) :
          IF IsMissingFileShape(normalized[i][1])
          THEN normalized[i][2] = NORMALIZED_ERROR_MESSAGE
          ELSE normalized[i][2] = normalized[i][1]
    /\ \A i, j \in 1..Len(normalized) :
          (normalized[i][1] # normalized[j][1] /\ normalized[i][2] = normalized[j][2])
              => (IsMissingFileShape(normalized[i][1])
                  /\ IsMissingFileShape(normalized[j][1]))

\* ---- C6 ----
Injective(f) == \A a, b \in DOMAIN f : f[a] = f[b] => a = b

\* the rows of one record: the shared columns, and one row per bucket (or
\* the single row with empty message and count 0)
BlockOf(block, s, label, csv) ==
    LET breakdown == s.error_message_breakdown
        n == Len(breakdown)
    IN  /\ \A i \in 1..Len(block) :
              SubSeq(block[i], 1, 5) =
                  <<PyStr(label), PyStr(s.db_path), PyInt(s.total_rows),
                    PyInt(s.is_done_1_count), PyInt(s.is_done_0_count)>>
        /\ IF n = 0
           THEN /\ Len(block) = 1
                /\ SubSeq(block[1], 6, 7) = <<PyStr(<<>>), PyInt(0)>>
           ELSE /\ Len(block) = n
                /\ \E bucket \in [1..n -> 1..n] :
                      /\ Injective(bucket)
                      /\ \A i \in 1..n :
                            /\ block[i][7] = PyInt(breakdown[bucket[i]].v)
                            /\ block[i][6] =
                                 PyStr(IF csv THEN CleanMsg(breakdown[bucket[i]].k)
                                       ELSE breakdown[bucket[i]].k)

RowsExpected(s) ==
    IF s.error_message_breakdown = <<>> THEN 1 ELSE Len(s.error_message_breakdown)

RECURSIVE RowsPerRecord(_, _, _, _)
RowsPerRecord(rows, stats_list, label, csv) ==
    IF stats_list = <<>> THEN rows = <<>>
    ELSE LET n == RowsExpected(Head(stats_list))
         IN  /\ Len(rows) >= n
             /\ BlockOf(SubSeq(rows, 1, n), Head(stats_list), label, csv)
             /\ RowsPerRecord(SubSeq(rows, n + 1, Len(rows)), Tail(stats_list),
                              label, csv)

ExcelRowsBuilt == template_read \/ export_result = "ValueError"

\* C6: both row builders emit, for each record of the list, exactly 1 row
\* with empty message and count 0 when its breakdown is empty and exactly N
\* rows when it has N buckets, one per bucket with that bucket's count; the
\* rows of one record share label, database path, total_rows,
\* is_done_1_count and is_done_0_count.
C6_RowsPerRecord ==
    /\ ExcelRowsBuilt => RowsPerRecord(rows_data, all_stats, file_system, FALSE)
    /\ export_result = "csv ok" =>
          /\ csv_rows # <<>>
          /\ RowsPerRecord(Tail(csv_rows), all_stats, file_system, TRUE)

\* rows were built for a database without buckets and for one with several
C6_Witness ==
    /\ ExcelRowsBuilt
    /\ \E i, j \in 1..Len(all_stats) :
          /\ all_stats[i].error_message_breakdown = <<>>
          /\ Len(all_stats[j].error_message_breakdown) >= 2
    /\ Len(rows_data) >= 3

\* ---- C7 ----
ExportReturned == export_result = "ok"
SheetRows(archive) == ReadPart(archive.parts, SheetPart).sheetData.rows
OldRows == SheetRows(template0)
OutRows == SheetRows(files[output_path])
NewRows == SubSeq(OutRows, Len(OldRows) + 1, Len(OutRows))

IntegerIndices(rows) ==
    {ParseInt(rows[i].r).v : i \in {j \in 1..Len(rows) : ParseInt(rows[j].r).ok}}
HighestIndex(rows) ==
    IF IntegerIndices(rows) = {} THEN 0
    ELSE CHOOSE m \in IntegerIndices(rows) : \A x \in IntegerIndices(rows) : x <= m

\* C7: a successful export appends exactly one row element per Export Row
\* after all existing rows, and with M the highest integer index among the
\* existing rows (0 if none) the k new rows carry M+1, ..., M+k in that
\* order, none of them the index of an existing row.
C7_NewRowsFollowHighestIndex ==
    ExportReturned =>
        /\ Len(OutRows) = Len(OldRows) + Len(rows_data)
        /\ SubSeq(OutRows, 1, Len(OldRows)) = OldRows
        /\ \A i \in 1..Len(rows_data) :
              /\ NewRows[i].tag = "row"
              /\ NewRows[i].r = PyStr(StrOfInt(HighestIndex(OldRows) + i))
              /\ \A j \in 1..Len(OldRows) : OldRows[j].r # NewRows[i].r

\* the rows of existing indices 10, -, x, 9 were followed by 11 and 12
C7_Witness ==
    /\ ExportReturned
    /\ Len(rows_data) >= 2
    /\ HighestIndex(OldRows) = 10
    /\ Len(OldRows) = 4
    /\ NewRows[2].r = PyStr(<<"1", "2">>)

\* ---- C8 ----
\* C8: the archive a successful export writes has the template's parts in
\* the template's order; every part but the worksheet has the template's
\* content, and in the worksheet the existing rows are kept unchanged and in
\* order, new rows after them being the only difference.
C8_OnlyTheSheetRowsGrow ==
    ExportReturned =>
        LET old == template0.parts
            out == files[output_path].parts
        IN  /\ Len(out) = Len(old)
            /\ \A i \in 1..Len(old) :
                  /\ out[i].filename = old[i].filename
                  /\ old[i].filename # SheetPart => out[i].data = old[i].data
                  /\ old[i].filename = SheetPart =>
                        /\ out[i].data.sheetData.present
                        /\ Len(out[i].data.sheetData.rows)
                             > Len(old[i].data.sheetData.rows)
                        /\ SubSeq(out[i].data.sheetData.rows, 1,
                                  Len(old[i].data.sheetData.rows))
                             = old[i].data.sheetData.rows

\* a workbook with rows was exported to another document
C8_Witness ==
    /\ ExportReturned
    /\ output_path = OtherPath
    /\ Len(OldRows) >= 2
    /\ Len(files[OtherPath].parts) = 4
    /\ files[TemplatePath] = template0

\* ---- C9 ----
Whitespace == {" ", "\t", "\n", "\r"}
IsBlankString(value) ==
    /\ value.t = "str"
    /\ \A i \in 1..Len(value.v) : value.v[i] \in Whitespace
IsNumber(value) == value.t = "int"

CellAsClaimed(cell, value) ==
    IF IsBlankString(value)
    THEN cell.t = "absent" /\ cell.children = <<>>
    ELSE IF IsNumber(value)
         THEN /\ Len(cell.children) = 1
              /\ cell.children[1].tag = "v"
              /\ cell.children[1].text = StrOfInt(value.v)
         ELSE /\ cell.t = "inlineStr"
              /\ Len(cell.children) = 1
              /\ cell.children[1].tag = "is"
              /\ Len(cell.children[1].children) = 1
              /\ cell.children[1].children[1].tag = "t"
              /\ cell.children[1].children[1].text = value.v

\* C9: in every new cell, an empty or whitespace-only string gives a cell
\* with no child and no type attribute, a number a cell whose only child is
\* a value element with the number's text, and any other value an inlineStr
\* cell whose only child is an "is" element holding one "t" element with the
\* text.
C9_CellTyping ==
    ExportReturned =>
        \A i \in 1..Len(rows_data) : \A c \in 1..Len(rows_data[i]) :
            /\ Len(NewRows[i].cells) = Len(rows_data[i])
            /\ CellAsClaimed(NewRows[i].cells[c], rows_data[i][c])

\* ---- C10 ----
\* C10: a call of export_stats_to_excel on records that yield no Export Row
\* ends with the ValueError, without having read the template and with every
\* document as it was.
C10_NoRowsIsAnError ==
    [][(ExportExcel /\ BuildExcelRows(all_stats, file_system) = <<>>) =>
          /\ export_result' = "ValueError"
          /\ ~template_read'
          /\ files' = files]_vars

\* the call was refused although template and output path were usable
C10_Witness ==
    /\ all_stats = <<>>
    /\ export_result = "ValueError"
    /\ files[TemplatePath] = Archive(Workbook(SheetHeaders))
    /\ files[OtherPath] = Absent

\* ---- C11 ----
\* the messages of the rows of one record are the keys of its breakdown, one
\* row per key
CarriesKeys(block, s) ==
    LET breakdown == s.error_message_breakdown
        n == Len(breakdown)
    IN  n > 0 =>
            \E bucket \in [1..n -> 1..n] :
                /\ Injective(bucket)
                /\ \A i \in 1..n : block[i][6] = PyStr(breakdown[bucket[i]].k)

RECURSIVE RowsCarryKeys(_, _)
RowsCarryKeys(rows, stats_list) ==
    IF stats_list = <<>> THEN TRUE
    ELSE LET n == RowsExpected(Head(stats_list))
         IN  /\ Len(rows) >= n
             /\ CarriesKeys(SubSeq(rows, 1, n), Head(stats_list))
             /\ RowsCarryKeys(SubSeq(rows, n + 1, Len(rows)), Tail(stats_list))

Ellipsis == <<".", ".", ".">>

\* every message of the console detail tables has at most 80 characters and
\* is a key, the label of the normalised key, or the first 77 characters of a
\* key followed by "..."
ConsoleShortens ==
    \A d \in 1..Len(console.details) :
        \A i \in 1..Len(console.details[d].err_rows) :
            LET shown == console.details[d].err_rows[i][1]
            IN  /\ Len(shown) <= 80
                /\ \E r \in 1..Len(all_stats) :
                      \E b \in 1..Len(all_stats[r].error_message_breakdown) :
                          LET key == all_stats[r].error_message_breakdown[b].k
                          IN  \/ shown = key
                              \/ key = NORMALIZED_ERROR_MESSAGE /\ shown = NormalizedLabel
                              \/ Len(key) > 80 /\ shown = SubSeq(key, 1, 77) \o Ellipsis

ExcelRowsCarryKeys == ExcelRowsBuilt => RowsCarryKeys(rows_data, all_stats)
CsvRowsCarryKeys ==
    export_result = "csv ok" => RowsCarryKeys(Tail(csv_rows), all_stats)

\* C11: in both exporters the message of every Export Row is exactly the key
\* stored in the record's error_message_breakdown, whatever its length and
\* content; only the console detail table shortens messages, to at most 80
\* characters.
C11_ExportRowsCarryTheKey ==
    /\ ExcelRowsCarryKeys
    /\ CsvRowsCarryKeys
    /\ ConsoleShortens

\* ---- C12 ----
\* C12: for every Stats Record get_stats returns,
\* is_done_0_with_error_count <= is_done_0_count, whichever of the queries
\* after the total-count query succeed or fail.
C12_ErrorCountWithinPendingCount ==
    Returned => stats.is_done_0_with_error_count <= stats.is_done_0_count

\* ---- C13 ----
\* the keys the raw error rows of a table are counted under, row by row
RawKeys(rows) ==
    [i \in 1..Len(QueryRows(6, rows)) |->
        Normalize(RowMessage(QueryRows(6, rows)[i]))]

FirstSeenAt(keys, k) ==
    CHOOSE i \in 1..Len(keys) : keys[i] = k /\ \A j \in 1..(i - 1) : keys[j] # k

\* the buckets are those of the keys, in the order of their first occurrence
InEncounterOrder(breakdown, keys) ==
    /\ {breakdown[b].k : b \in 1..Len(breakdown)} = {keys[i] : i \in 1..Len(keys)}
    /\ \A a, b \in 1..Len(breakdown) :
          a < b => FirstSeenAt(keys, breakdown[a].k) < FirstSeenAt(keys, breakdown[b].k)

\* what a table of kind "excel", "csv" or "console" shows for a key
ShownAs(kind, key) ==
    CASE kind = "excel" -> key
      [] kind = "csv" -> CleanMsg(key)
      [] kind = "console" -> Display(key)

\* rows, given as <<message, count>>, are the buckets by non-increasing count,
\* equal counts in the order of the breakdown
SortedStably(pairs, breakdown, kind) ==
    LET n == Len(breakdown)
    IN  /\ Len(pairs) = n
        /\ \E bucket \in [1..n -> 1..n] :
              /\ Injective(bucket)
              /\ \A i \in 1..n :
                    pairs[i] = <<ShownAs(kind, breakdown[bucket[i]].k),
                                 breakdown[bucket[i]].v>>
              /\ \A i, j \in 1..n :
                    i < j =>
                        \/ breakdown[bucket[i]].v > breakdown[bucket[j]].v
                        \/ /\ breakdown[bucket[i]].v = breakdown[bucket[j]].v
                           /\ bucket[i] < bucket[j]

PairsOf(block) == [i \in 1..Len(block) |-> <<block[i][6].v, block[i][7].v>>]

RECURSIVE BlocksSorted(_, _, _)
\* the rows of the records follow each other in the order of the records
BlocksSorted(rows, stats_list, kind) ==
    IF stats_list = <<>> THEN rows = <<>>
    ELSE LET s == Head(stats_list)
             n == RowsExpected(s)
         IN  /\ Len(rows) >= n
             /\ \A i \in 1..n : rows[i][2] = PyStr(s.db_path)
             /\ s.error_message_breakdown # <<>> =>
                    SortedStably(PairsOf(SubSeq(rows, 1, n)),
                                 s.error_message_breakdown, kind)
             /\ BlocksSorted(SubSeq(rows, n + 1, Len(rows)), Tail(stats_list), kind)

WithErrors(s) == s.error_message_breakdown # <<>>

DetailsSorted ==
    LET shown == SelectSeq(all_stats, WithErrors)
    IN  /\ Len(console.details) = Len(shown)
        /\ \A d \in 1..Len(shown) :
              /\ console.details[d].db_name = shown[d].db_name
              /\ SortedStably(console.details[d].err_rows,
                              shown[d].error_message_breakdown, "console")

\* C13: the error detail rows and the Export Rows of one database are in
\* non-increasing order of count, equal counts in the order in which their
\* keys were first met among the raw error rows; the rows of different
\* databases follow the order of the Stats Records.
C13_RowsSortedStably ==
    /\ \A r \in 1..Len(all_stats) : \A rows \in Tables :
          StatsOfTable(all_stats[r].db_path, rows) = all_stats[r] =>
              InEncounterOrder(all_stats[r].error_message_breakdown, RawKeys(rows))
    /\ ExcelRowsBuilt => BlocksSorted(rows_data, all_stats, "excel")
    /\ export_result = "csv ok" =>
          csv_rows # <<>> /\ BlocksSorted(Tail(csv_rows), all_stats, "csv")
    /\ console.printed => DetailsSorted

\* rows were built for a database whose buckets the sort reorders (the tab
\* met first, the timeout counted twice) and then for one with three equal
\* counts
C13_Witness ==
    /\ ExcelRowsBuilt
    /\ Len(rows_data) = 5
    /\ rows_data[1][6] = PyStr(MsgTimeout) /\ rows_data[1][7] = PyInt(2)
    /\ rows_data[2][6] = PyStr(MsgTab)
    /\ rows_data[3][6] = PyStr(MsgTimeout)
    /\ rows_data[4][6] = PyStr(NORMALIZED_ERROR_MESSAGE)
    /\ rows_data[5][6] = PyStr(MsgTwoLines)
    /\ rows_data[3][7] = rows_data[5][7]

\* ---- C14 ----
\* C14: normalising the result of a normalisation gives that result again,
\* normalize(normalize(x)) = normalize(x), and NORMALIZED_ERROR_MESSAGE
\* normalises to itself.
C14_NormalizeIdempotent ==
    /\ \A i \in 1..Len(normalized) :
          Normalize(normalized[i][2]) = normalized[i][2]
    /\ \A i \in 1..Len(normalized) :
          normalized[i][1] = NORMALIZED_ERROR_MESSAGE =>
              normalized[i][2] = NORMALIZED_ERROR_MESSAGE

\* a missing-file message was replaced and the canonical message itself was
\* normalised
C14_Witness ==
    \E i, j \in 1..Len(normalized) :
        /\ normalized[i][1] = MsgMissingB
        /\ normalized[i][2] = NORMALIZED_ERROR_MESSAGE
        /\ normalized[j][1] = NORMALIZED_ERROR_MESSAGE
        /\ normalized[j][2] = NORMALIZED_ERROR_MESSAGE

\* ---- C15 ----
ExitStatusRight ==
    IF pc = "exited"
    THEN /\ exit_status \in {0, 1}
         /\ exit_status # 0 <=> ~disk.is_dir
         /\ exit_status # 0 => history = <<>>
    ELSE exit_status = "running"

\* C15: main ends, with a non-zero status exactly when the scan root is not
\* a directory, and then without having opened a database; every other run,
\* whatever fails in the databases or in the export, ends with status zero.
C15_ExitStatus == <>(pc = "exited") /\ []ExitStatusRight

\* a run ended with status zero although a database failed and the export
\* failed
C15_Witness ==
    /\ pc = "exited"
    /\ exit_status = 0
    /\ \E i \in 1..Len(history) : history[i].fate # "ok"
    /\ export_result \in {"PermissionError", "BadZipFile"}

\* ---- C16 ----
\* C16: every connection _execute_query opens is closed before the call
\* returns, whatever the outcome; so at most one connection is open at any
\* point of a run, it is a connection of the call under way, and no
\* connection to an earlier database is still open when the next database is
\* connected to.
C16_ConnectionsClosed ==
    /\ conn = None => open_conns = <<>>
    /\ Len(open_conns) <= 1
    /\ \A i \in 1..Len(open_conns) : conn # None /\ open_conns[i] = db_path

\* a connection to the second database is open, after a query of the first
\* one had failed and queries of the second one had succeeded
C16_Witness ==
    /\ conn # None
    /\ Len(history) = 2
    /\ history[1].fate # "ok"
    /\ qn > 1
    /\ open_conns = <<history[2].db>>

\* ---- C17 ----
LetterValue(c) == CHOOSE i \in 1..26 : Letters[i] = c
IsLetter(c) == \E i \in 1..26 : Letters[i] = c

RECURSIVE NameValue(_)
\* the number a column name stands for: letters A..Z as the digits 1..26
NameValue(name) ==
    IF name = <<>> THEN 0
    ELSE 26 * NameValue(SubSeq(name, 1, Len(name) - 1)) + LetterValue(name[Len(name)])

IsNameOf(name, k) ==
    /\ name # <<>>
    /\ \A i \in 1..Len(name) : IsLetter(name[i])
    /\ NameValue(name) = k

\* the reference is the name of column k followed by the row's index
IsReference(ref, k, row_r) ==
    \E n \in 1..Len(ref) :
        /\ IsNameOf(SubSeq(ref, 1, n), k)
        /\ PyStr(SubSeq(ref, n + 1, Len(ref))) = row_r

\* C17: _col_idx_to_name gives the bijective base-26 name of a positive
\* index (1 A, 26 Z, 27 AA, 52 AZ, 53 BA), so distinct indices have distinct
\* names; in every row export_stats_to_excel appends, the cell at position k
\* has the reference made of that name for k and the row's index, and the
\* style identifier 2.
C17_ColumnNames ==
    /\ arg_idx # 0 =>
          /\ IsNameOf(col_name, arg_idx)
          /\ arg_idx = 1 => col_name = <<"A">>
          /\ arg_idx = 26 => col_name = <<"Z">>
          /\ arg_idx = 27 => col_name = <<"A", "A">>
          /\ arg_idx = 52 => col_name = <<"A", "Z">>
          /\ arg_idx = 53 => col_name = <<"B", "A">>
    /\ ExportReturned =>
          \A i \in 1..Len(NewRows) : \A k \in 1..Len(NewRows[i].cells) :
              /\ IsReference(NewRows[i].cells[k].r, k, NewRows[i].r)
              /\ NewRows[i].cells[k].s = "2"

\* the call returned a name of three letters
C17_Witness ==
    /\ arg_idx = MaxColIdx
    /\ Len(col_name) = 3

\* ---- C18 ----
\* C18: export_stats_to_excel never changes the template document: whatever
\* template and output path it is given, the output path being the
\* template's included, and whether it succeeds or fails, the file at the
\* template's path has afterwards the content it had before.
C18_TemplateUnchanged == files[TemplatePath] = template0

====
